---- MODULE Spec2Model ----
(***************************************************************************)
(* Life-cycle consumption-savings model solved by the Endogenous Grid      *)
(* Method (Lecture 4): model.solve(par) as a state machine.                *)
(*                                                                         *)
(* Reals are fixed-point integers: one unit is 0.01 of cash-on-hand, every *)
(* division rounds down.  The gross return R, the discount factor beta and *)
(* the quadrature weights are ratios of integers.  The Euler inversion is  *)
(* homogeneous of degree one, so the unit cancels in it.                   *)
(*                                                                         *)
(* Periods are numbered 1..T as in the lecture text (the code prints the   *)
(* 0-based index t-1).                                                     *)
(***************************************************************************)
EXTENDS Integers, Sequences, FiniteSets, TLC

\* ------------------------------------------------------------------ bounds
MaxT == 3
MaxGridsize == 3

\* fixed-point scale of marginal utilities c^(-rho)
MUScale == 10^8

\* ------------------------------------------------- the parameter bag `par`
\* par['T']: horizons tried, 0 included (an invalid one)
Horizons == 0..MaxT

\* par['l']: labour indicator, any 0/1 sequence of length 0..MaxT
LabourSeqs == UNION {[1..n -> {0, 1}] : n \in 0..MaxT}

\* par['R'] as <<numerator, denominator>>: 0, 1/2 and the lecture's 1.2
Returns == {<<0, 1>>, <<1, 2>>, <<6, 5>>}

\* par['beta'] as <<numerator, denominator>>: the lecture's 1/R and 1/2
Betas == {<<5, 6>>, <<1, 2>>}

\* par['rho']: log utility and the lecture's 2
Rhos == {1, 2}

\* common denominator of the weights of the small quadratures
OmegaDen == 4

\* par['Y'], par['omega']: shock nodes (units) and weights (in 1/den)
Quadratures ==
    { [Y |-> <<100>>,          omega |-> <<4>>,       den |-> OmegaDen],
      [Y |-> <<60, 160>>,      omega |-> <<2, 2>>,    den |-> OmegaDen],
      [Y |-> <<40, 100, 250>>, omega |-> <<1, 2, 1>>, den |-> OmegaDen],
      [Y |-> <<60, 160>>,      omega |-> <<-1, 5>>,   den |-> OmegaDen],
      [Y |-> <<60, 160>>,      omega |-> <<0, 0>>,    den |-> OmegaDen] }

\* the lecture's quadrature: 7 Gauss-Hermite nodes x with weights wi,
\* Y = exp(0.5 * sqrt(2) * x) in units, omega = wi / sqrt(pi) in 1/500
GaussHermite7 ==
    [Y     |-> <<15, 31, 56, 100, 178, 327, 652>>,
     omega |-> <<1, 15, 120, 228, 120, 15, 1>>,
     den   |-> 500]

\* first grid point (10e-6 in the lecture; 0 is the degenerate choice)
AMins == {0, 10}

\* par['a_max']
AMaxs == {10, 300}

\* par['gridsize_a']: at least two points, so that the savings grid and the
\* terminal grid, both cut from [a_min, a_max], are increasing together
Gridsizes == 2..MaxGridsize

\* np.linspace(start, stop, num)
linspace(start, stop, num) ==
    IF num = 1 THEN <<start>>
    ELSE [i \in 1..num |-> start + ((i - 1) * (stop - start)) \div (num - 1)]

\* the "Setting Parameters" cell
MakePar(T, l, R, beta, rho, q, a_min, a_max, gridsize_a) ==
    [ T          |-> T,
      l          |-> l,
      Rn         |-> R[1],
      Rd         |-> R[2],
      betan      |-> beta[1],
      betad      |-> beta[2],
      rho        |-> rho,
      S          |-> Len(q.Y),
      Y          |-> q.Y,
      omega      |-> q.omega,
      omegad     |-> q.den,
      a_max      |-> a_max,
      gridsize_a |-> gridsize_a,
      G_a        |-> linspace(a_min, a_max, gridsize_a),
      G_w_det    |-> linspace(a_min, a_max, gridsize_a + 1) ]

\* the lecture's calibration: T = 6, R = 1.2, beta = 1/R, rho = 2, work in
\* periods 1..4, a_max = 5, first grid point small and positive
NotebookPars ==
    { MakePar(6, <<1, 1, 1, 1, 0, 0>>, <<6, 5>>, <<5, 6>>, 2, GaussHermite7,
              10, 500, gridsize_a) : gridsize_a \in Gridsizes }

Pars ==
    { MakePar(T, l, R, beta, rho, q, a_min, a_max, gridsize_a) :
        T \in Horizons, l \in LabourSeqs, R \in Returns, beta \in Betas,
        rho \in Rhos, q \in Quadratures, a_min \in AMins, a_max \in AMaxs,
        gridsize_a \in Gridsizes }
    \cup NotebookPars

\* ------------------------------------------------------------------- state
VARIABLES
    par,     \* the parameter bag passed to solve
    pc,      \* position in solve: "start", "loop", "returned", "failed"
    t,       \* period the loop is about to solve
    G_w,     \* endogenous grids, one row per period (<<>> = not written)
    Cstar,   \* consumption policies, one row per period
    order,   \* periods solved so far, in the order solved
    reads,   \* per period: the periods whose policy its step read
    err,     \* "none", "ConfigurationError" or "DomainError"
    ret,     \* what the caller got: <<>> or <<G_w, Cstar>>
    cur,     \* points of period t computed so far: <<index, c>> in the
             \* order computed (used when the points are separate steps)
    evals,   \* (savings point, shock node) evaluations done so far
    queries, \* per period: the <<i, s, w', c'>> its step asked of the
             \* next period's policy (point, node, cash-on-hand, answer)
    ppar,    \* the par dictionary of the pension exercise
    pgc,     \* "off", "ready" (par set) or "solved" (solve_paygo returned)
    K_guess, \* the capital guess of the last solve_paygo call
    C_out,   \* the C it returned: consumption path, ages 1..T
    A_out,   \* the A it returned: savings path
    K_out,   \* the K it returned: implied aggregate capital
    sol_ss,  \* result of the minimisation without pension (<<>> = not run)
    sol_paygo \* result of the minimisation with the pension scheme

pgvars == <<ppar, pgc, K_guess, C_out, A_out, K_out, sol_ss, sol_paygo>>

vars == <<par, pc, t, G_w, Cstar, order, reads, err, ret, cur, evals, queries,
          pgvars>>

\* ----------------------------------------------------------- pure helpers
\* sum of the first n entries of q
RECURSIVE SumSeq(_, _)
SumSeq(q, n) == IF n = 0 THEN 0 ELSE SumSeq(q, n - 1) + q[n]

StrictlyIncreasing(g) == \A i \in 1..(Len(g) - 1) : g[i] < g[i + 1]

RECURSIVE Pow(_, _)
Pow(c, r) == IF r = 0 THEN 1 ELSE c * Pow(c, r - 1)

\* largest n in lo..hi with n^r <= x, by bisection (the midpoint is bound
\* as a value, so that each level is evaluated once)
RECURSIVE RootSearch(_, _, _, _)
RootSearch(x, r, lo, hi) ==
    IF lo >= hi THEN lo
    ELSE CHOOSE n \in { IF Pow(mid, r) <= x THEN RootSearch(x, r, mid, hi)
                        ELSE RootSearch(x, r, lo, mid - 1) :
                        mid \in {(lo + hi + 1) \div 2} } : TRUE

\* x^(1/r), rounded down (x is bound as a value and evaluated once)
Root(x, r) ==
    CHOOSE n \in { IF r = 1 THEN v
                   ELSE RootSearch(v, r, 0, IF v < 30000 THEN v ELSE 30000) :
                   v \in {x} } : TRUE

\* (variant: above the last entry the last policy value is returned)
interp_clamped(W, C, w) ==
    LET n == Len(W)
        k == IF w >= W[n] THEN n - 1
             ELSE CHOOSE j \in 1..(n - 1) :
                      w < W[j + 1] /\ (j = 1 \/ w >= W[j])
    IN IF w < W[1] THEN w
       ELSE IF w >= W[n] THEN C[n]
       ELSE C[k] + ((w - W[k]) * (C[k + 1] - C[k])) \div (W[k + 1] - W[k])

\* interp(G_w, Cstar, w): linear interpolation over a sorted grid; above the
\* last entry the final segment is continued, below the first entry the
\* constrained relation c = w is used
interp(W, C, w) ==
    LET n == Len(W)
        k == IF w >= W[n] THEN n - 1
             ELSE CHOOSE j \in 1..(n - 1) :
                      w < W[j + 1] /\ (j = 1 \/ w >= W[j])
    IN IF w < W[1] THEN w
       ELSE C[k] + ((w - W[k]) * (C[k + 1] - C[k])) \div (W[k + 1] - W[k])

\* ------------------------------------------------------- validation of par
\* the conditions under which solve rejects par
\* (variant: the weights are not looked at)
BadConfig_noweights(p) ==
    \/ p.T < 1
    \/ ~StrictlyIncreasing(p.G_a)
    \/ p.Rn <= 0
    \/ Len(p.l) # p.T

BadConfig(p) ==
    \/ p.T < 1
    \/ ~StrictlyIncreasing(p.G_a)
    \/ \E s \in 1..Len(p.omega) : p.omega[s] < 0
    \/ p.Rn <= 0
    \/ Len(p.l) # p.T

\* the error validation raises, "none" when par passes
Validate(p) == IF BadConfig(p) THEN "ConfigurationError" ELSE "none"

\* ---------------------------------------------------------- terminal period
\* c*_T = w_T on the deterministic grid G_w_det
\* (variant: the terminal grid is the savings grid itself)
TerminalW_savings(p) == p.G_a

TerminalW(p) == p.G_w_det

\* (variant: the terminal row is built like an inductive one)
TerminalC_anchored(p) == <<0>> \o p.G_a

TerminalC(p) == p.G_w_det

\* ---------------------------------------------------------- inductive step
\* the period whose policy the step of period tt interpolates over
\* (variant: every step interpolates over the terminal policy)
ReadPeriod_terminal(tt) == par.T

ReadPeriod(tt) == tt + 1

\* reversed(range(T)): the period solved after period tt
PrevPeriod(tt) == tt - 1

\* (variant: the indicator of the current period is used)
Wprime_current(p, tt, a, s) == p.Y[s] * p.l[tt] + (p.Rn * a) \div p.Rd

\* w_{t+1} = y_{t+1} l_{t+1} + R a_t
Wprime(p, tt, a, s) == p.Y[s] * p.l[tt + 1] + (p.Rn * a) \div p.Rd

\* c*_{t+1}(w_{t+1}) at shock node s
Cnext(p, W, C, tt, a, s) == interp(W, C, Wprime(p, tt, a, s))

\* c^(-rho), scaled by MUScale
MargU(p, c) == MUScale \div Pow(c, p.rho)

\* (variant: the quadrature weights are left out of the sum)
RECURSIVE ExpMargU_unweighted(_, _, _, _, _, _)
ExpMargU_unweighted(p, W, C, tt, a, s) ==
    IF s = 0 THEN 0
    ELSE ExpMargU_unweighted(p, W, C, tt, a, s - 1)
         + MargU(p, Cnext(p, W, C, tt, a, s))

\* sum over the first s nodes of omega_s * c*_{t+1}(w_{t+1,s})^(-rho)
RECURSIVE ExpMargU(_, _, _, _, _, _)
ExpMargU(p, W, C, tt, a, s) ==
    IF s = 0 THEN 0
    ELSE ExpMargU(p, W, C, tt, a, s - 1)
         + p.omega[s] * MargU(p, Cnext(p, W, C, tt, a, s))

\* the expected marginal utility at savings point a is not a positive finite
\* number: some c*_{t+1} is 0, or the weighted sum is not positive
DomainBadAt(p, W, C, tt, a) ==
    IF \E s \in 1..p.S : Cnext(p, W, C, tt, a, s) = 0 THEN TRUE
    ELSE ExpMargU(p, W, C, tt, a, p.S) <= 0

\* (variant: the guard raises the validation error class)
EulerGuard_config(p, W, C, tt) ==
    IF \E i \in 1..Len(p.G_a) : DomainBadAt(p, W, C, tt, p.G_a[i])
    THEN "ConfigurationError" ELSE "none"

\* the error the Euler inversion of period tt raises, "none" when defined
EulerGuard(p, W, C, tt) ==
    IF \E i \in 1..Len(p.G_a) : DomainBadAt(p, W, C, tt, p.G_a[i])
    THEN "DomainError" ELSE "none"

\* (variant: beta R multiplies where it should divide)
EulerInvert_flipped(p, E) ==
    LET X == MUScale \div (E \div p.omegad)
    IN Root((X * p.betan * p.Rn) \div (p.betad * p.Rd), p.rho)

\* (beta R E)^(-1/rho) for the weighted sum E: E / omegad is the expected
\* marginal utility, X its reciprocal, i.e. c^rho before discounting
EulerInvert(p, E) ==
    LET X == MUScale \div (E \div p.omegad)
    IN Root((X * p.betad * p.Rd) \div (p.betan * p.Rn), p.rho)

\* c_t = (beta R E[c*_{t+1}(w_{t+1})^(-rho)])^(-1/rho)
EulerC(p, W, C, tt, a) ==
    EulerInvert(p, ExpMargU(p, W, C, tt, a, p.S))

\* (variant: the anchor is appended after the last point)
PeriodC_appended(p, W, C, tt) ==
    [i \in 1..Len(p.G_a) |-> EulerC(p, W, C, tt, p.G_a[i])] \o <<0>>

\* (variant: the points are laid out from the last savings point down)
PeriodC_reversed(p, W, C, tt) ==
    <<0>> \o [i \in 1..Len(p.G_a) |->
                 EulerC(p, W, C, tt, p.G_a[Len(p.G_a) + 1 - i])]

\* (variant: savings are subtracted from the Euler consumption)
PeriodC_net(p, W, C, tt) ==
    <<0>> \o [i \in 1..Len(p.G_a) |-> EulerC(p, W, C, tt, p.G_a[i]) - p.G_a[i]]

\* the policy row of period tt: the anchor 0, then c_t at every savings point
PeriodC(p, W, C, tt) ==
    <<0>> \o [i \in 1..Len(p.G_a) |-> EulerC(p, W, C, tt, p.G_a[i])]

\* (variant: the anchor is appended after the last point)
PeriodW_appended(p, W, C, tt) ==
    [i \in 1..Len(p.G_a) |-> p.G_a[i] + EulerC(p, W, C, tt, p.G_a[i])] \o <<0>>

\* (variant: the grid row is the consumption row)
PeriodW_consumed(p, W, C, tt) ==
    <<0>> \o [i \in 1..Len(p.G_a) |-> EulerC(p, W, C, tt, p.G_a[i])]

\* (variant: savings enter with their return, R a_i + c_i)
PeriodW_gross(p, W, C, tt) ==
    <<0>> \o [i \in 1..Len(p.G_a) |->
                 (p.Rn * p.G_a[i]) \div p.Rd + EulerC(p, W, C, tt, p.G_a[i])]

\* (variant: the grid row is consumption less savings)
PeriodW_minus(p, W, C, tt) ==
    <<0>> \o [i \in 1..Len(p.G_a) |-> EulerC(p, W, C, tt, p.G_a[i]) - p.G_a[i]]

\* the grid row of period tt: the anchor 0, then w_{t,i} = a_i + c_{t,i}
PeriodW(p, W, C, tt) ==
    <<0>> \o [i \in 1..Len(p.G_a) |-> p.G_a[i] + EulerC(p, W, C, tt, p.G_a[i])]

\* (variant: a slice assignment, rows tt and above all take the new row)
StoreRow_slice(A, tt, row) ==
    [q \in DOMAIN A |-> IF q >= tt THEN row ELSE A[q]]

\* A[tt, :] = row: the one row of period tt is written
StoreRow(A, tt, row) == [A EXCEPT ![tt] = row]

\* (variant: a value left over from the previous point is reused)
PointC_carry(p, W, C, tt, i, done) ==
    IF done = <<>> THEN EulerC(p, W, C, tt, p.G_a[i])
    ELSE EulerC(p, W, C, tt, p.G_a[done[Len(done)][1]])

\* steps 2a-2e for savings point i alone, whatever points are done already
PointC(p, W, C, tt, i, done) == EulerC(p, W, C, tt, p.G_a[i])

\* the error the Euler inversion raises at point i, "none" when defined
PointGuard(p, W, C, tt, i) ==
    IF DomainBadAt(p, W, C, tt, p.G_a[i]) THEN "DomainError" ELSE "none"

\* the consumption computed for point i among the finished points
DoneC(done, i) == done[CHOOSE k \in 1..Len(done) : done[k][1] = i][2]

\* the rows of a period assembled from its finished points, anchor first
AssembleC(p, done) == <<0>> \o [i \in 1..Len(p.G_a) |-> DoneC(done, i)]

AssembleW(p, done) ==
    <<0>> \o [i \in 1..Len(p.G_a) |-> p.G_a[i] + DoneC(done, i)]

\* what point i asks of next period's policy: one query per shock node
PointQueries(p, W, C, tt, i) ==
    { <<i, s, Wprime(p, tt, p.G_a[i], s), Cnext(p, W, C, tt, p.G_a[i], s)>> :
        s \in 1..p.S }

\* the queries of all savings points of period tt
PeriodQueries(p, W, C, tt) ==
    UNION { PointQueries(p, W, C, tt, i) : i \in 1..Len(p.G_a) }

\* (variant: the shock nodes are not counted)
PeriodWork_points(p) == Len(p.G_a)

\* evaluations of one non-terminal period: N savings points x S shock nodes
PeriodWork(p) == Len(p.G_a) * p.S

\* what solve hands back
Returned(W, C) == <<W, C>>

\* (variant: the arrays filled so far escape with the error)
Raised_partial(W, C) == <<W, C>>

\* what the caller holds after solve raised: nothing
Raised(W, C) == <<>>

\* ----------------------------------------------------------------- actions
Init ==
    /\ par \in Pars
    /\ pc = "start"
    /\ t = 0
    /\ G_w = <<>>
    /\ Cstar = <<>>
    /\ order = <<>>
    /\ reads = <<>>
    /\ err = "none"
    /\ ret = <<>>
    /\ cur = <<>>
    /\ evals = 0
    /\ queries = <<>>
    /\ ppar = [T |-> 0]
    /\ pgc = "off"
    /\ K_guess = 0
    /\ C_out = <<>>
    /\ A_out = <<>>
    /\ K_out = 0
    /\ sol_ss = <<>>
    /\ sol_paygo = <<>>

\* validation rejects par: ConfigurationError, nothing computed
ValidateFail ==
    /\ pc = "start"
    /\ Validate(par) # "none"
    /\ pc' = "failed"
    /\ err' = Validate(par)
    /\ ret' = Raised(G_w, Cstar)
    /\ UNCHANGED <<par, t, G_w, Cstar, order, reads, cur, evals>>
    /\ UNCHANGED <<queries, pgvars>>

\* validation passes: allocate one row per period, start the loop at T
ValidateOk ==
    /\ pc = "start"
    /\ Validate(par) = "none"
    /\ pc' = "loop"
    /\ t' = par.T
    /\ G_w' = [i \in 1..par.T |-> <<>>]
    /\ Cstar' = [i \in 1..par.T |-> <<>>]
    /\ reads' = [i \in 1..par.T |-> {}]
    /\ queries' = [i \in 1..par.T |-> {}]
    /\ UNCHANGED <<par, order, err, ret, cur, evals>>
    /\ UNCHANGED pgvars

\* t = T: consume everything
TerminalStep ==
    /\ pc = "loop"
    /\ t = par.T
    /\ G_w' = StoreRow(G_w, t, TerminalW(par))
    /\ Cstar' = StoreRow(Cstar, t, TerminalC(par))
    /\ order' = Append(order, t)
    /\ t' = PrevPeriod(t)
    /\ UNCHANGED <<par, pc, reads, err, ret, cur, evals>>
    /\ UNCHANGED <<queries, pgvars>>

\* t < T: Euler inversion on every savings point over period t+1's policy
InductiveStep ==
    /\ pc = "loop"
    /\ 1 <= t /\ t < par.T
    /\ LET r == ReadPeriod(t)
       IN /\ EulerGuard(par, G_w[r], Cstar[r], t) = "none"
          /\ G_w' = StoreRow(G_w, t, PeriodW(par, G_w[r], Cstar[r], t))
          /\ Cstar' = StoreRow(Cstar, t, PeriodC(par, G_w[r], Cstar[r], t))
          /\ reads' = [reads EXCEPT ![t] = @ \cup {r}]
          /\ queries' = [queries EXCEPT
                            ![t] = PeriodQueries(par, G_w[r], Cstar[r], t)]
    /\ order' = Append(order, t)
    /\ t' = PrevPeriod(t)
    /\ evals' = evals + PeriodWork(par)
    /\ UNCHANGED <<par, pc, err, ret, cur>>
    /\ UNCHANGED pgvars

\* t < T: the Euler inversion is undefined at some savings point
DomainFail ==
    /\ pc = "loop"
    /\ 1 <= t /\ t < par.T
    /\ LET r == ReadPeriod(t)
       IN /\ EulerGuard(par, G_w[r], Cstar[r], t) # "none"
          /\ reads' = [reads EXCEPT ![t] = @ \cup {r}]
          /\ err' = EulerGuard(par, G_w[r], Cstar[r], t)
    /\ pc' = "failed"
    /\ ret' = Raised(G_w, Cstar)
    /\ cur' = <<>>
    /\ UNCHANGED <<par, t, G_w, Cstar, order, evals>>
    /\ UNCHANGED <<queries, pgvars>>

\* the loop is over: hand the arrays to the caller
Return ==
    /\ pc = "loop"
    /\ t = 0
    /\ pc' = "returned"
    /\ ret' = Returned(G_w, Cstar)
    /\ UNCHANGED <<par, t, G_w, Cstar, order, reads, err, cur, evals>>
    /\ UNCHANGED <<queries, pgvars>>

Next ==
    \/ ValidateFail
    \/ ValidateOk
    \/ TerminalStep
    \/ InductiveStep
    \/ DomainFail
    \/ Return

Spec == Init /\ [][Next]_vars

\* the runs whose labour vector has one entry per period
FairInit == Init /\ Len(par.l) = par.T

\* the sequential program runs on until it returns or raises
FairSpec == FairInit /\ [][Next]_vars /\ WF_vars(Next)

\* ------------------------------- the savings points of a period as steps
\* steps 2a-2e for one savings point not done yet, in any order
PointStep ==
    /\ pc = "loop"
    /\ 1 <= t /\ t < par.T
    /\ \E i \in 1..Len(par.G_a) :
          LET r == ReadPeriod(t)
          IN /\ \A k \in 1..Len(cur) : cur[k][1] # i
             /\ PointGuard(par, G_w[r], Cstar[r], t, i) = "none"
             /\ cur' = Append(cur, <<i, PointC(par, G_w[r], Cstar[r], t, i, cur)>>)
             /\ reads' = [reads EXCEPT ![t] = @ \cup {r}]
             /\ queries' = [queries EXCEPT
                               ![t] = @ \cup PointQueries(par, G_w[r],
                                                          Cstar[r], t, i)]
    /\ evals' = evals + par.S
    /\ UNCHANGED <<par, pc, t, G_w, Cstar, order, err, ret>>
    /\ UNCHANGED pgvars

\* step 2f: all points done, the rows of period t are stored
StorePeriod ==
    /\ pc = "loop"
    /\ 1 <= t /\ t < par.T
    /\ Len(cur) = Len(par.G_a)
    /\ G_w' = StoreRow(G_w, t, AssembleW(par, cur))
    /\ Cstar' = StoreRow(Cstar, t, AssembleC(par, cur))
    /\ order' = Append(order, t)
    /\ t' = PrevPeriod(t)
    /\ cur' = <<>>
    /\ UNCHANGED <<par, pc, reads, err, ret, evals>>
    /\ UNCHANGED <<queries, pgvars>>

NextPoints ==
    \/ ValidateFail
    \/ ValidateOk
    \/ TerminalStep
    \/ PointStep
    \/ StorePeriod
    \/ DomainFail
    \/ Return

SpecPoints == Init /\ [][NextPoints]_vars

\* ------------------------------- Lecture 1 exercise: the pension scheme
\* fixed-point unit of the exercise's real numbers: 1.0 is 10000
Unit == 10000

\* contribution rates tried: par['τ'] = 0.0 and par['τ'] = 0.1
Taus == {0, Unit \div 10}

\* par of the exercise: ages 1..T, retirement age R < T, a labour vector of
\* T indicators with someone working, L = sum(l); α = 1/3, δ = 0.07,
\* β = 0.95; the cell's own l is ones(R) followed by zeros(T - R)
PaygoPars ==
    UNION { { [T |-> n, R |-> R, alphan |-> 1, alphad |-> 3, rho |-> rho,
               delta |-> (7 * Unit) \div 100, beta |-> (95 * Unit) \div 100,
               l |-> l, L |-> SumSeq(l, n), tau |-> tau] :
                R \in 0..(n - 1), rho \in Rhos, tau \in Taus,
                l \in {v \in [1..n -> {0, 1}] : SumSeq(v, n) >= 1} } :
            n \in 1..MaxT }

\* x^j in fixed point
RECURSIVE FixPow(_, _)
FixPow(x, j) == IF j = 0 THEN Unit ELSE (FixPow(x, j - 1) * x) \div Unit

\* x^(1/n) in fixed point
FixRoot(x, n) == Root(x * Pow(Unit, n - 1), n)

\* (K_guess/L)^(1/alphad), the root from which both prices are built
KLRoot(p, Kg) == Root(Kg \div p.L, p.alphad)

\* r = α (K_guess/L)^(α-1) - δ
r_paygo(p, Kg) ==
    (p.alphan * Unit) \div (p.alphad * Pow(KLRoot(p, Kg), p.alphad - p.alphan))
        - p.delta

\* w = (1 - α) (K_guess/L)^α
w_paygo(p, Kg) ==
    ((p.alphad - p.alphan) * Unit * Pow(KLRoot(p, Kg), p.alphan)) \div p.alphad

\* (variant: the contributions are spread over all T ages)
b_paygo_perT(p, w) == (((p.tau * w) \div Unit) * SumSeq(p.l, p.T)) \div p.T

\* b = τ w sum(l) / (T - R)
b_paygo(p, w) == (((p.tau * w) \div Unit) * SumSeq(p.l, p.T)) \div (p.T - p.R)

\* (1-τ) l w + (1-l) b at age j
Income(p, w, b, j) ==
    (((Unit - p.tau) * w) \div Unit) * p.l[j] + (1 - p.l[j]) * b

\* (β (1+r))^(1/ρ), the per-age consumption growth factor
Growth(p, r) == FixRoot((p.beta * (Unit + r)) \div Unit, p.rho)

\* (variant: only the wages are counted, the benefits are left out)
RECURSIVE IncomePV_wages(_, _, _, _, _)
IncomePV_wages(p, w, b, r, j) ==
    IF j = 0 THEN 0
    ELSE IncomePV_wages(p, w, b, r, j - 1)
         + (((((Unit - p.tau) * w) \div Unit) * p.l[j]) * Unit)
               \div FixPow(Unit + r, j)

\* sum over ages 1..j of income / (1+r)^age
RECURSIVE IncomePV(_, _, _, _, _)
IncomePV(p, w, b, r, j) ==
    IF j = 0 THEN 0
    ELSE IncomePV(p, w, b, r, j - 1)
         + (Income(p, w, b, j) * Unit) \div FixPow(Unit + r, j)

\* sum over ages 1..j of (β (1+r))^((age-1)/ρ) / (1+r)^age
RECURSIVE GrowthPV(_, _, _)
GrowthPV(p, r, j) ==
    IF j = 0 THEN 0
    ELSE GrowthPV(p, r, j - 1)
         + (FixPow(Growth(p, r), j - 1) * Unit) \div FixPow(Unit + r, j)

\* first-age consumption, the closed form (1)
C1_paygo(p, w, b, r) ==
    (IncomePV(p, w, b, r, p.T) * Unit) \div GrowthPV(p, r, p.T)

\* (variant: the exponent runs over 1..T)
C_paygo_next(p, w, b, r) ==
    [j \in 1..p.T |->
        (C1_paygo(p, w, b, r) * FixPow(Growth(p, r), j)) \div Unit]

\* C = C1 (β (1+r))^(t/ρ), t = 0..T-1
C_paygo(p, w, b, r) ==
    [j \in 1..p.T |->
        (C1_paygo(p, w, b, r) * FixPow(Growth(p, r), j - 1)) \div Unit]

\* A[0] = (1-τ) w l[0] - C[0], then
\* A[t] = (1-τ) w l[t] + (1-l[t]) b + (1+r) A[t-1] - C[t]
RECURSIVE A_at(_, _, _, _, _, _)
A_at(p, w, b, r, c, j) ==
    IF j = 1 THEN (((Unit - p.tau) * w) \div Unit) * p.l[1] - c[1]
    ELSE Income(p, w, b, j)
         + ((Unit + r) * A_at(p, w, b, r, c, j - 1)) \div Unit - c[j]

A_paygo(p, w, b, r, c) == [j \in 1..p.T |-> A_at(p, w, b, r, c, j)]

\* capital guesses: K_guess/L a perfect cube, so that the prices are exact
KGuesses(p) == {p.L * k * k * k : k \in 1..2}

\* K_implied: the K that solve_paygo(K_guess, par) returns
K_implied(p, Kg) ==
    LET r == r_paygo(p, Kg)
        w == w_paygo(p, Kg)
        b == b_paygo(p, w)
    IN SumSeq(A_paygo(p, w, b, r, C_paygo(p, w, b, r)), p.T)

\* loss = (K_guess - K_implied)**2, the difference taken in hundredths
objective_paygo(Kg, p) ==
    LET d == (Kg * Unit - K_implied(p, Kg)) \div 100
    IN d * d

\* the result of the bounded minimisation: among the guesses tried, the
\* one of least loss (x) and its loss (fun)
minimize_scalar(p) ==
    LET x == CHOOSE Kg \in KGuesses(p) :
                 \A o \in KGuesses(p) :
                     objective_paygo(Kg, p) <= objective_paygo(o, p)
    IN [x |-> x, fun |-> objective_paygo(x, p)]

\* (variant: the function writes a zero rate back into the dictionary)
ParAfter_reset(p) == [p EXCEPT !.tau = 0]

\* par after a call of solve_paygo or objective_paygo: they only read it
ParAfter(p) == p

InitPaygo ==
    /\ par = [T |-> 0]
    /\ pc = "off"
    /\ t = 0
    /\ G_w = <<>>
    /\ Cstar = <<>>
    /\ order = <<>>
    /\ reads = <<>>
    /\ err = "none"
    /\ ret = <<>>
    /\ cur = <<>>
    /\ evals = 0
    /\ queries = <<>>
    /\ ppar \in PaygoPars
    /\ pgc = "ready"
    /\ K_guess = 0
    /\ C_out = <<>>
    /\ A_out = <<>>
    /\ K_out = 0
    /\ sol_ss = <<>>
    /\ sol_paygo = <<>>

\* C, A, K = solve_paygo(K_guess, par)
SolvePaygo ==
    /\ pgc \in {"ready", "solved"}
    /\ \E Kg \in KGuesses(ppar) :
          LET r == r_paygo(ppar, Kg)
              w == w_paygo(ppar, Kg)
              b == b_paygo(ppar, w)
              c == C_paygo(ppar, w, b, r)
              a == A_paygo(ppar, w, b, r, c)
          IN /\ K_guess' = Kg
             /\ C_out' = c
             /\ A_out' = a
             /\ K_out' = SumSeq(a, ppar.T)
    /\ pgc' = "solved"
    /\ ppar' = ParAfter(ppar)
    /\ UNCHANGED <<par, pc, t, G_w, Cstar, order, reads, err, ret, cur, evals,
                   queries>>
    /\ UNCHANGED <<sol_ss, sol_paygo>>

\* par['τ'] = ...: the caller sets another contribution rate
SetTau ==
    /\ pgc \in {"ready", "solved"}
    /\ \E tau \in Taus \ {ppar.tau} : ppar' = [ppar EXCEPT !.tau = tau]
    /\ pgc' = "ready"
    /\ UNCHANGED <<par, pc, t, G_w, Cstar, order, reads, err, ret, cur, evals,
                   queries>>
    /\ UNCHANGED <<K_guess, C_out, A_out, K_out, sol_ss, sol_paygo>>

\* par['τ'] = 0.0; sol_ss = minimize_scalar(objective_paygo, ..., args=(par))
SteadyState ==
    /\ pgc \in {"ready", "solved"}
    /\ sol_ss = <<>>
    /\ LET p0 == [ppar EXCEPT !.tau = 0]
       IN /\ sol_ss' = minimize_scalar(p0)
          /\ ppar' = ParAfter(p0)
    /\ pgc' = "ready"
    /\ UNCHANGED <<par, pc, t, G_w, Cstar, order, reads, err, ret, cur, evals,
                   queries>>
    /\ UNCHANGED <<K_guess, C_out, A_out, K_out, sol_paygo>>

\* par['τ'] = 0.1; sol_paygo = minimize_scalar(objective_paygo, ..., args=(par))
SteadyStatePaygo ==
    /\ pgc \in {"ready", "solved"}
    /\ sol_ss # <<>>
    /\ sol_paygo = <<>>
    /\ LET p1 == [ppar EXCEPT !.tau = Unit \div 10]
       IN /\ sol_paygo' = minimize_scalar(p1)
          /\ ppar' = ParAfter(p1)
    /\ pgc' = "ready"
    /\ UNCHANGED <<par, pc, t, G_w, Cstar, order, reads, err, ret, cur, evals,
                   queries>>
    /\ UNCHANGED <<K_guess, C_out, A_out, K_out, sol_ss>>

NextPaygo ==
    \/ SolvePaygo
    \/ SetTau
    \/ SteadyState
    \/ SteadyStatePaygo

SpecPaygo == InitPaygo /\ [][NextPaygo]_vars

\* ------------------------------------------------------------- properties
\* periods whose row has been written
Written == {p \in DOMAIN G_w : Len(G_w[p]) > 0}

\* periods below T: the rows built by the inductive step
Anchored == {p \in Written : p < par.T}

\* C1. Terminal condition: once period T is written, its policy row is
\* its grid row, point for point: C_T(w) = w on the terminal grid; the
\* returned arrays carry the same row.
C1_TerminalCondition ==
    /\ par.T \in Written =>
          /\ Len(Cstar[par.T]) = Len(G_w[par.T])
          /\ \A i \in 1..Len(G_w[par.T]) : Cstar[par.T][i] = G_w[par.T][i]
    /\ pc = "returned" => ret[2][par.T] = ret[1][par.T]

\* a returned solution of at least two periods whose terminal row has a
\* positive point
C1_Witness ==
    /\ pc = "returned"
    /\ par.T >= 2
    /\ \E i \in 1..Len(ret[1][par.T]) :
          ret[1][par.T][i] > 0 /\ ret[2][par.T][i] = ret[1][par.T][i]

\* C2. Constrained-region consistency, as claimed: in every written period,
\* every cash-on-hand w below the second grid entry (the first one after the
\* anchor) is interpolated to w itself.
C2_ConstrainedExact ==
    \A p \in Written :
        \A w \in 0..(G_w[p][2] - 1) : interp(G_w[p], Cstar[p], w) = w

\* C3. Monotonicity: in every written period, consumption does not fall from
\* one grid point to the next, the pair (anchor, first point) included.
C3_Monotone ==
    \A p \in Written :
        \A i \in 1..(Len(Cstar[p]) - 1) : Cstar[p][i] <= Cstar[p][i + 1]

\* a returned solution with a non-terminal period whose policy rises strictly
\* from the anchor to the first point and from the first to the second
C3_Witness ==
    /\ pc = "returned"
    /\ \E p \in Anchored :
          /\ G_w[p][1] < G_w[p][2] /\ G_w[p][2] < G_w[p][3]
          /\ Cstar[p][1] < Cstar[p][2] /\ Cstar[p][2] < Cstar[p][3]

\* C4. Non-negativity: every stored consumption value is >= 0.
C4_NonNegative ==
    \A p \in Written : \A i \in 1..Len(Cstar[p]) : Cstar[p][i] >= 0

\* a returned three-period solution: period 1 has positive consumption at
\* a savings point above it (a point where subtracting savings would go
\* below zero)
C4_Witness ==
    /\ pc = "returned"
    /\ par.T >= 3
    /\ \E i \in 2..Len(Cstar[1]) :
          Cstar[1][i] > 0 /\ Cstar[1][i] < par.G_a[i - 1]

\* C5. Borrowing constraint: at every stored grid point implied savings
\* W - C are >= 0; they are 0 at the anchor and 0 everywhere in period T.
C5_Borrowing ==
    /\ \A p \in Written :
          \A i \in 1..Len(G_w[p]) : G_w[p][i] - Cstar[p][i] >= 0
    /\ \A p \in Anchored : G_w[p][1] - Cstar[p][1] = 0
    /\ par.T \in Written =>
          \A i \in 1..Len(G_w[par.T]) : G_w[par.T][i] - Cstar[par.T][i] = 0

\* a returned solution with a non-terminal point of strictly positive savings
C5_Witness ==
    /\ pc = "returned"
    /\ \E p \in Anchored :
          \E i \in 2..Len(G_w[p]) :
              G_w[p][i] - Cstar[p][i] > 0 /\ Cstar[p][i] > 0

\* C6. Output shape: solve returns T grid rows and T policy rows, indexed by
\* period 1..T, every one of length N + 1 (N savings grid points), the
\* terminal one included.
C6_Shape ==
    pc = "returned" =>
        /\ Len(ret) = 2
        /\ DOMAIN ret[1] = 1..par.T /\ DOMAIN ret[2] = 1..par.T
        /\ \A p \in 1..par.T :
              /\ Len(ret[1][p]) = Len(par.G_a) + 1
              /\ Len(ret[2][p]) = Len(par.G_a) + 1
        /\ Len(par.G_a) = par.gridsize_a

\* a returned solution with terminal and non-terminal periods
C6_Witness ==
    /\ pc = "returned"
    /\ par.T >= 2
    /\ Len(ret[1][par.T]) = par.gridsize_a + 1
    /\ Len(ret[1][1]) = par.gridsize_a + 1

C8_BackwardOrder ==
    /\ \A i \in 1..Len(order) : order[i] = par.T - i + 1
    /\ pc = "returned" => Len(order) = par.T
    /\ (pc = "loop" /\ 1 <= t /\ t < par.T) => (t + 1) \in Written
    /\ \A p \in DOMAIN reads :
          /\ reads[p] \subseteq {p + 1}
          /\ reads[p] \subseteq Written
          /\ (p \in Anchored) => reads[p] = {p + 1}

\* a returned three-period solution: order 3, 2, 1, period 1 read period 2
C8_Witness ==
    /\ pc = "returned"
    /\ par.T = 3
    /\ order = <<3, 2, 1>>
    /\ reads[1] = {2} /\ reads[2] = {3} /\ reads[3] = {}

\* the five conditions a ConfigurationError is claimed for
C9_Rejected ==
    \/ par.T < 1
    \/ \E i \in 1..(Len(par.G_a) - 1) : par.G_a[i] >= par.G_a[i + 1]
    \/ \E s \in DOMAIN par.omega : par.omega[s] < 0
    \/ par.Rn * par.Rd <= 0
    \/ Len(par.l) # par.T

\* C9. Configuration validation: once solve has left its first position, it
\* has failed with ConfigurationError exactly when one of the five conditions
\* holds, and then no period was computed and nothing was returned.
C9_ConfigValidation ==
    pc # "start" =>
        /\ (err = "ConfigurationError") <=> C9_Rejected
        /\ err = "ConfigurationError" =>
              /\ pc = "failed"
              /\ order = <<>> /\ Written = {} /\ ret = <<>>

\* a rejected bag whose only fault is a negative weight
C9_Witness ==
    /\ pc = "failed"
    /\ err = "ConfigurationError"
    /\ par.T >= 1 /\ Len(par.l) = par.T /\ par.Rn > 0
    /\ StrictlyIncreasing(par.G_a)
    /\ \E s \in DOMAIN par.omega : par.omega[s] < 0

\* C10. All-or-nothing: the caller holds either nothing or the complete
\* arrays; after a failure (either error) it holds nothing, even when some
\* periods had been computed; after a return it holds all T periods.
C10_AllOrNothing ==
    /\ pc = "failed" => (ret = <<>> /\ err # "none")
    /\ err # "none" => ret = <<>>
    /\ pc = "returned" =>
          /\ err = "none"
          /\ ret = <<G_w, Cstar>>
          /\ Written = 1..par.T
    /\ pc \in {"start", "loop"} => ret = <<>>

\* a DomainError raised after at least two periods had been computed
C10_Witness ==
    /\ pc = "failed"
    /\ err = "DomainError"
    /\ Len(order) >= 2
    /\ Written # {}
    /\ ret = <<>>

\* the loop stands at a period below T whose expected marginal utility is,
\* at some savings point, not a positive finite number
C11_Undefined ==
    /\ pc = "loop" /\ 1 <= t /\ t < par.T
    /\ \E i \in 1..Len(par.G_a) :
          \/ \E s \in 1..par.S :
                interp(G_w[t + 1], Cstar[t + 1],
                       Wprime(par, t, par.G_a[i], s)) = 0
          \/ /\ \A s \in 1..par.S :
                   interp(G_w[t + 1], Cstar[t + 1],
                          Wprime(par, t, par.G_a[i], s)) # 0
             /\ ExpMargU(par, G_w[t + 1], Cstar[t + 1], t, par.G_a[i], par.S) <= 0

\* C11. Domain guard: a step taken from a period whose expected marginal
\* utility is undefined at some savings point fails with DomainError and
\* writes nothing; DomainError is raised by no other step; after a failure
\* there is no further step, so period t-1 is never solved.
C11_DomainGuard ==
    [][ /\ C11_Undefined =>
              /\ pc' = "failed" /\ err' = "DomainError"
              /\ G_w' = G_w /\ Cstar' = Cstar /\ order' = order /\ t' = t
        /\ (err' = "DomainError" /\ err # "DomainError") => C11_Undefined
        /\ pc # "failed" ]_vars

\* a DomainError with positive weights: next period's consumption is 0 at
\* the savings point 0 of a retired period; period t+1 is written, t is not
C11_Witness ==
    /\ pc = "failed" /\ err = "DomainError"
    /\ \A s \in 1..par.S : par.omega[s] > 0
    /\ par.G_a[1] = 0
    /\ (t + 1) \in Written /\ t \notin Written
    /\ order[Len(order)] = t + 1

\* C12. Write-once policies: a step changes no row that is already written;
\* the only rows a step changes are those of the period it solves, which it
\* records in the order of solved periods; no period is recorded twice.
C12_WriteOnce ==
    [][ /\ \A p \in DOMAIN G_w :
              /\ Len(G_w[p]) > 0 =>
                    (G_w'[p] = G_w[p] /\ Cstar'[p] = Cstar[p])
              /\ (G_w'[p] # G_w[p] \/ Cstar'[p] # Cstar[p]) =>
                    (p = t /\ order' = Append(order, p))
        /\ \A i, j \in 1..Len(order') :
              i # j => order'[i] # order'[j] ]_vars

\* a returned three-period solution: periods 3 and 2 were written before
\* the steps of periods 2 and 1 ran, and every row is filled
C12_Witness ==
    /\ pc = "returned"
    /\ par.T = 3
    /\ order = <<3, 2, 1>>
    /\ \A p \in 1..3 : Len(G_w[p]) > 0 /\ Len(Cstar[p]) > 0

\* cash-on-hand levels at which two periods' policies are compared
CashPoints == {25 * k : k \in 0..48}

\* C16: in the lecture's calibration (T = 6, R = 1.2, beta = 1/R, rho = 2,
\* l = [1,1,1,1,0,0], 7 shock nodes) period 6's policy is the terminal
\* condition exactly (consumption equals cash-on-hand at every point of its
\* grid), and period 1's policy is nowhere above period 6's at equal
\* cash-on-hand and strictly below it at every unconstrained point.
C16_NotebookScenario ==
    (par \in NotebookPars /\ 1 \in Written) =>
        /\ G_w[6] = par.G_w_det
        /\ Cstar[6] = G_w[6]
        /\ \A w \in CashPoints \cup {G_w[1][i] : i \in 1..Len(G_w[1])} :
              interp(G_w[1], Cstar[1], w) <= interp(G_w[6], Cstar[6], w)
        /\ \A i \in 2..Len(G_w[1]) :
              Cstar[1][i] < interp(G_w[6], Cstar[6], G_w[1][i])

C16_Witness ==
    /\ par \in NotebookPars
    /\ pc = "returned"
    /\ order = <<6, 5, 4, 3, 2, 1>>
    /\ Len(G_w[1]) = par.gridsize_a + 1
    /\ \E w \in CashPoints : /\ w > G_w[1][2]
                             /\ w < G_w[1][Len(G_w[1])]
                             /\ interp(G_w[1], Cstar[1], w) < w

\* C20: in every stored non-terminal period the first entry is the anchor
\* (cash-on-hand 0, consumption 0) and the remaining N entries belong, in
\* order, to the N savings grid points: entry i + 1 holds the consumption
\* computed for savings point i and the cash-on-hand a_i + c_i.
C20_AnchorPoint ==
    \A p \in Anchored :
        /\ G_w[p][1] = 0
        /\ Cstar[p][1] = 0
        /\ Len(G_w[p]) = Len(par.G_a) + 1
        /\ Len(Cstar[p]) = Len(par.G_a) + 1
        /\ \A i \in 1..Len(par.G_a) :
              /\ Cstar[p][i + 1] =
                     EulerC(par, G_w[p + 1], Cstar[p + 1], p, par.G_a[i])
              /\ G_w[p][i + 1] - Cstar[p][i + 1] = par.G_a[i]

C20_Witness ==
    /\ pc = "returned"
    /\ par.T = 3
    /\ par.gridsize_a = 3
    /\ par.S = 3
    /\ Anchored = {1, 2}
    /\ \A p \in Anchored : /\ G_w[p][1] = 0
                           /\ Cstar[p][2] < Cstar[p][3]
                           /\ Cstar[p][3] < Cstar[p][4]

\* closed-form deterministic CRRA step: the c with
\* c_{t+1} = (beta R)^(1/rho) c, for next-period consumption cn
ClosedFormPrev(p, cn) ==
    Root((Pow(cn, p.rho) * p.betad * p.Rd) \div (p.betan * p.Rn), p.rho)

\* C17: with a single quadrature node of weight 1 at Y = 1 (no income risk)
\* the stored consumption at every unconstrained point is the closed-form
\* deterministic one: next period's consumption at the implied cash-on-hand
\* is (beta R)^(1/rho) times it, up to one unit of the fixed-point grid.
C17_NoRisk ==
    (par.S = 1 /\ par.omega = <<par.omegad>> /\ par.Y = <<100>>) =>
        \A p \in Anchored : \A i \in 1..Len(par.G_a) :
            Cstar[p][i + 1]
              - ClosedFormPrev(par, Cnext(par, G_w[p + 1], Cstar[p + 1],
                                          p, par.G_a[i], 1))
                \in {0, 1}

C17_Witness ==
    /\ pc = "returned"
    /\ par.S = 1
    /\ par.omega = <<par.omegad>>
    /\ par.T = 3
    /\ par.rho = 2
    /\ par.betan * par.Rn # par.betad * par.Rd
    /\ Anchored = {1, 2}
    /\ \A p \in Anchored : \A i \in 1..Len(par.G_a) :
          Cstar[p][i + 1] # Cnext(par, G_w[p + 1], Cstar[p + 1],
                                  p, par.G_a[i], 1)

\* par passes validation and also meets the data model's invariants: the
\* savings grid is positive and the weights sum to one
WellFormed ==
    /\ Validate(par) = "none"
    /\ par.G_a[1] > 0
    /\ SumSeq(par.omega, Len(par.omega)) = par.omegad

r_last == r_paygo(ppar, K_guess)

w_last == w_paygo(ppar, K_guess)

b_last == b_paygo(ppar, w_last)

\* C18: after solve_paygo, at every age j = 1..T, the first included and
\* whatever the labour vector, consumption plus savings equal net wage
\* income plus the benefit of a non-working age plus the return on last
\* age's savings (none at the first age): C[j] + A[j] =
\* (1-tau) w l[j] + (1-l[j]) b + (1+r) A[j-1].
C18_PeriodBudget ==
    pgc = "solved" =>
        \A j \in 1..ppar.T :
            C_out[j] + A_out[j] =
                Income(ppar, w_last, b_last, j)
                  + (IF j = 1 THEN 0
                     ELSE ((Unit + r_last) * A_out[j - 1]) \div Unit)

C21_GridIdentity ==
    \A p \in Anchored :
        [i \in 1..(Len(G_w[p]) - 1) |-> G_w[p][i + 1] - Cstar[p][i + 1]]
            = par.G_a

C21_Witness ==
    /\ pc = "returned"
    /\ par.T = 3
    /\ par.gridsize_a = 3
    /\ par.Rn # par.Rd
    /\ Anchored = {1, 2}
    /\ \A p \in Anchored : \A i \in 1..3 :
          /\ Cstar[p][i + 1] > 0
          /\ G_w[p][i + 1] = par.G_a[i] + Cstar[p][i + 1]
    /\ G_w[1] # G_w[2]

\* C22: the step of a non-terminal period t asks next period's policy, for
\* every savings point a_i and shock node y_s, at the cash-on-hand
\* y_s l_{t+1} + R a_i, with the indicator of period t+1; when l_{t+1} = 0
\* that is R a_i for every node.
C22_NextCash ==
    \A p \in Anchored :
        /\ {<<q[1], q[2], q[3]>> : q \in queries[p]} =
              { <<i, s, par.Y[s] * par.l[p + 1]
                          + (par.Rn * par.G_a[i]) \div par.Rd>> :
                  i \in 1..Len(par.G_a), s \in 1..par.S }
        /\ par.l[p + 1] = 0 =>
              \A q \in queries[p] :
                  q[3] = (par.Rn * par.G_a[q[1]]) \div par.Rd

\* working in periods 1 and 2, retired in 3: the step of period 2 asks the
\* same cash-on-hand at every node, the step of period 1 does not
C22_Witness ==
    /\ pc = "returned"
    /\ par.T = 3
    /\ par.l = <<1, 1, 0>>
    /\ par.S >= 2
    /\ \A q1, q2 \in queries[2] : q1[1] = q2[1] => q1[3] = q2[3]
    /\ \E q1, q2 \in queries[1] : q1[1] = q2[1] /\ q1[3] # q2[3]

\* what the step of period p was answered for point i at node s
Answer(p, i, s) == (CHOOSE q \in queries[p] : q[1] = i /\ q[2] = s)[4]

\* the cash-on-hand it asked at
Asked(p, i, s) == (CHOOSE q \in queries[p] : q[1] = i /\ q[2] = s)[3]

\* sum over the nodes 1..s of omega_s times the marginal utility of the answer
RECURSIVE AnswerMU(_, _, _)
AnswerMU(p, i, s) ==
    IF s = 0 THEN 0
    ELSE AnswerMU(p, i, s - 1)
         + par.omega[s] * (MUScale \div Pow(Answer(p, i, s), par.rho))

\* c is the value on segment k of the rows (W, C) at cash-on-hand w
OnSegment(W, C, k, w, c) ==
    c = C[k] + ((w - W[k]) * (C[k + 1] - C[k])) \div (W[k + 1] - W[k])

\* C23: at every savings point of every stored non-terminal period the
\* stored consumption c solves the Euler equation in closed form: the
\* marginal utility of c is at least beta R times the expected marginal
\* utility of the answers it was given, and that of the next representable
\* value is not (c = (beta R sum_s omega_s c'_s^(-rho))^(-1/rho), rounded
\* down); each answer is the linear interpolant of period t+1's stored rows,
\* anchor included, at the cash-on-hand asked.
C23_EulerInversion ==
    \A p \in Anchored : \A i \in 1..Len(par.G_a) :
        LET c == Cstar[p][i + 1]
            Emu == AnswerMU(p, i, par.S) \div par.omegad
            k == par.betad * par.Rd
            n == par.betan * par.Rn
            W == G_w[p + 1]
            Cn == Cstar[p + 1]
        IN /\ (Emu \div k) * n <= MUScale \div Pow(c, par.rho)
           /\ MUScale \div (Pow(c + 1, par.rho) + 2 + k \div n)
                 < (Emu \div k + 1) * n
           /\ \A s \in 1..par.S :
                 \/ Asked(p, i, s) < W[1]
                 \/ Asked(p, i, s) >= W[Len(W)]
                 \/ \E j \in 1..(Len(W) - 1) :
                       /\ W[j] <= Asked(p, i, s)
                       /\ Asked(p, i, s) < W[j + 1]
                       /\ OnSegment(W, Cn, j, Asked(p, i, s), Answer(p, i, s))

\* three nodes with different answers, beta R different from one, and an
\* answer taken on the anchor segment of period 2
C23_Witness ==
    /\ pc = "returned"
    /\ par.T = 3
    /\ par.S = 3
    /\ par.rho = 2
    /\ par.betan * par.Rn # par.betad * par.Rd
    /\ Answer(1, 1, 1) < Answer(1, 1, 2)
    /\ Answer(1, 1, 2) < Answer(1, 1, 3)
    /\ \E i \in 1..Len(par.G_a) : \E s \in 1..par.S :
          /\ Asked(1, i, s) > 0
          /\ Asked(1, i, s) < G_w[2][2]
          /\ Answer(1, i, s) < Asked(1, i, s)

\* C24: a cash-on-hand at or above the last entry of a period's grid is
\* answered on the line through the last two stored points, not with the
\* last policy value: so are the answers given to the solver's own queries
\* of period t+1, and so is every evaluation of a stored policy.
C24_UpperExtrapolation ==
    /\ \A p \in Anchored : \A q \in queries[p] :
          LET W == G_w[p + 1]
              Cn == Cstar[p + 1]
          IN q[3] >= W[Len(W)] =>
                /\ OnSegment(W, Cn, Len(W) - 1, q[3], q[4])
                /\ q[4] >= Cn[Len(W)]
    /\ \A p \in Written : \A w \in CashPoints :
          LET W == G_w[p]
              Cn == Cstar[p]
          IN w >= W[Len(W)] =>
                /\ OnSegment(W, Cn, Len(W) - 1, w, interp(W, Cn, w))
                /\ interp(W, Cn, w) >= Cn[Len(W)]

\* period 1 of 3 asked period 2's policy above its last stored point and
\* was answered more than the last stored consumption
C24_Witness ==
    /\ pc = "returned"
    /\ par.T = 3
    /\ \E q \in queries[1] :
          /\ q[3] > G_w[2][Len(G_w[2])]
          /\ q[4] > Cstar[2][Len(G_w[2])]
    /\ \E w \in CashPoints :
          /\ w > G_w[1][Len(G_w[1])]
          /\ interp(G_w[1], Cstar[1], w) > Cstar[1][Len(G_w[1])]

\* C25: the consumption path solve_paygo returns starts at the closed-form
\* C1 and grows from each age to the next by (beta (1+r))^(1/rho), r being
\* the interest rate implied by K_guess (to two units of the fixed point);
\* the factor g is the rho-th root of beta (1+r), rounded down.
C25_EulerPath ==
    pgc = "solved" =>
        LET g == Growth(ppar, r_last)
            x == (ppar.beta * (Unit + r_last)) \div Unit
        IN /\ Pow(g, ppar.rho) <= x * Pow(Unit, ppar.rho - 1)
           /\ Pow(g + 1, ppar.rho) > x * Pow(Unit, ppar.rho - 1)
           /\ C_out[1] = C1_paygo(ppar, w_last, b_last, r_last)
           /\ \A j \in 1..(ppar.T - 1) :
                 C_out[j + 1] - (C_out[j] * g) \div Unit \in -2..2

C25_Witness ==
    /\ pgc = "solved"
    /\ ppar.T = 3
    /\ ppar.rho = 2
    /\ ppar.tau > 0
    /\ ppar.l = <<1, 1, 0>>
    /\ K_guess = 2
    /\ C_out[1] > 0
    /\ C_out[1] + 100 < C_out[2]
    /\ C_out[2] + 100 < C_out[3]

K_ss == sol_ss.x

K_ss_paygo == sol_paygo.x

\* C27: a call of solve_paygo leaves par as it was; a minimisation changes
\* par in the entry tau it assigns and nowhere else, and its result is the
\* one for the tau in force at the call; once K_ss is there, neither a later
\* assignment of tau nor a later solve changes it.
C27_ParIsolation ==
    [][ /\ pgc' = "solved" => ppar' = ppar
        /\ [ppar' EXCEPT !.tau = ppar.tau] = ppar
        /\ sol_ss # <<>> => sol_ss' = sol_ss
        /\ sol_ss' # sol_ss =>
              /\ ppar'.tau = 0
              /\ sol_ss' = minimize_scalar(ppar')
        /\ sol_paygo' # sol_paygo =>
              /\ ppar'.tau = Unit \div 10
              /\ sol_paygo' = minimize_scalar(ppar')
              /\ sol_ss' = minimize_scalar([ppar' EXCEPT !.tau = 0]) ]_vars

\* both minimisations done, with different losses, then solve_paygo called
\* under the pension rate
C27_Witness ==
    /\ sol_ss # <<>>
    /\ sol_paygo # <<>>
    /\ sol_ss.fun # sol_paygo.fun
    /\ K_ss = sol_ss.x
    /\ K_ss_paygo = sol_paygo.x
    /\ ppar.tau = Unit \div 10
    /\ ppar.T = 3
    /\ pgc = "solved"
    /\ K_out # 0

====
